---- MODULE Spec2Model ----
(***************************************************************************)
(* Healthcare AI Repository Dashboard (src/main.py).                       *)
(*                                                                         *)
(* The script is modelled as a state machine: one run of the script is a   *)
(* walk of pc through load_and_process_data, load_contribution_data, the   *)
(* sidebar widgets, the four filters and the tabs, ending in "done" or in  *)
(* one of the two except handlers.  Text is a sequence of one-character    *)
(* strings, so that split, strip and lower are computed, not assumed.      *)
(* A missing value (NaN, NaT, None) is the empty sequence <<>> and a       *)
(* present value v is <<v>>.  Time is counted in ticks, TicksPerDay ticks  *)
(* to the day, tick 0 being 2020-01-01 00:00.                              *)
(***************************************************************************)
EXTENDS Integers, Sequences, FiniteSets, TLC

VARIABLES
    csv,                    \* healthcare_data.csv: [exists, missing, rows]
    statsFile,              \* contributor_detailed_stats_aggregated.csv: <<>> or <<rows>>
    clock,                  \* the system clock, in ticks
    pc,                     \* position of the script
    cache,                  \* st.cache_data entry of load_and_process_data: <<>> or <<table>>
    load_df,                \* df inside load_and_process_data
    today,                  \* today of the latest run of load_and_process_data: <<>> or <<tick>>
    df,                     \* module-level df
    contrib_stats,          \* module-level contrib_stats: <<>> (None) or <<rows>>
    widgets,                \* selected_categories, activity_filter, min_stars, selected_standard
    filtered_df,            \* module-level filtered_df
    standards_exploded,     \* tab 3
    contributors_df,        \* tab 4
    contributors_with_stats,\* tab 4, after the merge
    rendered,               \* what the page shows so far, in order
    prev,                   \* the enriched table of the previous process: <<>> or <<[today, table]>>
    top_contributors,       \* tab 4, the ranking of line 648 or 661
    metric_for_chart,       \* tab 4: << >> or <<name of the ranking column>>
    cached_from,            \* history: the content of healthcare_data.csv the cache entry was computed from
    other                   \* the script run of a second session of the same process: [pc, df, widgets, filtered_df]

vars == << csv, statsFile, clock, pc, cache, load_df, today, df, contrib_stats, widgets,
           filtered_df, standards_exploded, contributors_df, contributors_with_stats,
           rendered, prev,
           top_contributors, metric_for_chart,
           cached_from,
           other >>

----------------------------------------------------------------------------
(* Bounds of the model *)

MaxRows == 4            \* rows of healthcare_data.csv
MaxTicks == 1           \* ticks the clock advances in a behaviour
TicksPerDay == 2        \* resolution of the clock

(* Program constants *)

ACTIVITY_WINDOW_DAYS == 365
RECENCY_WINDOW_DAYS == 365
ORG_THRESHOLD == 3

----------------------------------------------------------------------------
(* Text *)

UpperCase == << "A", "B", "C", "D", "E", "F", "G", "H", "I", "J", "K", "L", "M",
                "N", "O", "P", "Q", "R", "S", "T", "U", "V", "W", "X", "Y", "Z" >>
LowerCase == << "a", "b", "c", "d", "e", "f", "g", "h", "i", "j", "k", "l", "m",
                "n", "o", "p", "q", "r", "s", "t", "u", "v", "w", "x", "y", "z" >>
Whitespace == { " ", "\t", "\n" }

LowerChar(c) ==
    IF \E i \in 1..Len(UpperCase) : UpperCase[i] = c
    THEN LowerCase[CHOOSE i \in 1..Len(UpperCase) : UpperCase[i] = c]
    ELSE c

\* str.lower()
Lower(s) == [i \in 1..Len(s) |-> LowerChar(s[i])]

\* str.strip()
Strip(s) ==
    LET keep == { i \in 1..Len(s) : s[i] \notin Whitespace }
    IN  IF keep = {} THEN << >>
        ELSE SubSeq(s, CHOOSE i \in keep : \A j \in keep : i <= j,
                       CHOOSE i \in keep : \A j \in keep : i >= j)

\* the least position at which sep occurs in s, 0 if none
Find(s, sep) ==
    LET hits == { i \in 1..(Len(s) - Len(sep) + 1) : SubSeq(s, i, i + Len(sep) - 1) = sep }
    IN  IF hits = {} THEN 0 ELSE CHOOSE i \in hits : \A j \in hits : i <= j

\* str.split(sep), sep not empty
RECURSIVE Split(_, _)
Split(s, sep) ==
    LET p == Find(s, sep)
    IN  IF p = 0 THEN << s >>
        ELSE << SubSeq(s, 1, p - 1) >> \o Split(SubSeq(s, p + Len(sep), Len(s)), sep)

IsIn(x, list) == \E i \in 1..Len(list) : list[i] = x

Comma == << "," >>
CommaSpace == << ",", " " >>
Slash == << "/" >>
NoneUnknown == << "N", "o", "n", "e", "/", "U", "n", "k", "n", "o", "w", "n" >>
All == << "A", "l", "l" >>

BOT_ACCOUNTS ==
    << <<"d", "e", "p", "e", "n", "d", "a", "b", "o", "t">>,
       <<"d", "e", "p", "e", "n", "d", "a", "b", "o", "t", "[", "b", "o", "t", "]">>,
       <<"d", "e", "p", "e", "n", "d", "a", "b", "o", "t", "-", "p", "r", "e", "v", "i", "e", "w", "[", "b", "o", "t", "]">>,
       <<"g", "i", "t", "h", "u", "b", "-", "a", "c", "t", "i", "o", "n", "s", "[", "b", "o", "t", "]">>,
       <<"r", "e", "n", "o", "v", "a", "t", "e", "[", "b", "o", "t", "]">>,
       <<"g", "r", "e", "e", "n", "k", "e", "e", "p", "e", "r", "[", "b", "o", "t", "]">>,
       <<"i", "m", "g", "b", "o", "t", "[", "b", "o", "t", "]">>,
       <<"a", "l", "l", "c", "o", "n", "t", "r", "i", "b", "u", "t", "o", "r", "s", "[", "b", "o", "t", "]">>,
       <<"s", "e", "m", "a", "n", "t", "i", "c", "-", "r", "e", "l", "e", "a", "s", "e", "-", "b", "o", "t">>,
       <<"s", "n", "y", "k", "-", "b", "o", "t">>,
       <<"c", "o", "d", "e", "c", "o", "v", "[", "b", "o", "t", "]">>,
       <<"n", "e", "t", "l", "i", "f", "y", "[", "b", "o", "t", "]">>,
       <<"w", "h", "i", "t", "e", "s", "o", "u", "r", "c", "e", "-", "b", "o", "l", "t", "-", "f", "o", "r", "-", "g", "i", "t", "h", "u", "b", "[", "b", "o", "t", "]">> >>

EXCLUDED_CATEGORIES ==
    { "Lists", "Tutorials", "Specification / Docs", "Archived / Deprecated", "Educational" }

----------------------------------------------------------------------------
(* Sequences *)

RECURSIVE Concat(_)
Concat(ss) == IF ss = << >> THEN << >> ELSE Head(ss) \o Concat(Tail(ss))

Max(S) == CHOOSE x \in S : \A y \in S : y <= x

RECURSIVE Sum(_)
Sum(ns) == IF ns = << >> THEN 0 ELSE Head(ns) + Sum(Tail(ns))

----------------------------------------------------------------------------
(* Dates *)

IsLeap(y) == (y % 4 = 0 /\ y % 100 # 0) \/ y % 400 = 0
DaysIn(y) == IF IsLeap(y) THEN 366 ELSE 365

RECURSIVE YearFrom(_, _)
YearFrom(y, d) ==
    IF d < 0 THEN YearFrom(y - 1, d + DaysIn(y - 1))
    ELSE IF d >= DaysIn(y) THEN YearFrom(y + 1, d - DaysIn(y))
    ELSE y

\* Timestamp.year
YearOf(t) == YearFrom(2020, t \div TicksPerDay)

\* the days of a difference rounded toward zero, as int(delta / day) would
DaysTowardZero(delta) ==
    IF delta >= 0 THEN delta \div TicksPerDay ELSE 0 - ((0 - delta) \div TicksPerDay)

\* Timedelta.days: whole days, rounded toward minus infinity
Days(delta) == delta \div TicksPerDay

\* timedelta(days=n)
Timedelta(n) == n * TicksPerDay

\* a cell of a date column as read_csv leaves it
DateCell(t) == [kind |-> "date", t |-> t]
EmptyCell == [kind |-> "nan", t |-> 0]
TextCell == [kind |-> "text", t |-> 0]

\* pd.to_datetime on one cell: a date parses, an empty cell is NaT
ToDatetime(c) == IF c.kind = "date" THEN << c.t >> ELSE << >>
Parses(c) == c.kind # "text"

----------------------------------------------------------------------------
(* The input files *)

T0 == 1500 * TicksPerDay

Raw(repo, cat, stars, created, lc, tc, std) ==
    [ Repository |-> repo, Category |-> cat, Stars |-> stars,
      Created |-> created, Last_Commit |-> lc,
      Top_Contributors |-> tc, Standard |-> std ]

Pool ==
    << \* acme/e: an excluded category; a bot in capitals
       Raw(<<"a", "c", "m", "e", "/", "e">>, "Lists", 1,
           DateCell(T0 - Timedelta(100)), DateCell(T0 - Timedelta(10)),
           << <<"D", "E", "P", "E", "N", "D", "A", "B", "O", "T">> >>,
           << <<"F", "H", "I", "R">> >>),
       \* acme/a: last commit exactly 365 days before T0; a bot among the contributors
       Raw(<<"a", "c", "m", "e", "/", "a">>, "Interoperability", 1,
           DateCell(T0 - Timedelta(500)), DateCell(T0 - Timedelta(365)),
           << <<"a", "l", ",", " ", "D", "e", "p", "e", "n", "d", "a", "b", "o", "t", "[", "b", "o", "t", "]">> >>,
           << <<"F", "H", "I", "R", ",", " ", "O", "M", "O", "P">> >>),
       \* acme/b: last commit one tick inside the window at T0; created the same instant
       Raw(<<"a", "c", "m", "e", "/", "b">>, "Interoperability", 0,
           DateCell(T0 - Timedelta(365) + 1), DateCell(T0 - Timedelta(365) + 1),
           << <<"n", "o", "t", "d", "e", "p", "e", "n", "d", "a", "b", "o", "t">> >>,
           << <<"F", "H", "I", "R">> >>),
       \* acme/c: no contributors, no standard
       Raw(<<"a", "c", "m", "e", "/", "c">>, "Clinical NLP", 0,
           DateCell(T0 - Timedelta(900)), DateCell(T0 - Timedelta(400)),
           << >>, << >>),
       \* acme/d: last commit in the future and before Created; the sentinel standard
       Raw(<<"a", "c", "m", "e", "/", "d">>, "Clinical NLP", 1,
           DateCell(T0 + Timedelta(5)), DateCell(T0 + Timedelta(3)),
           << <<"a", "l", ",", "b", "o">> >>,
           << NoneUnknown >>),
       \* solo/x: another owner; blank contributors, a standard of separators only
       Raw(<<"s", "o", "l", "o", "/", "x">>, "Interoperability", 0,
           DateCell(T0 - Timedelta(30)), DateCell(T0 - Timedelta(1)),
           << <<" ">> >>,
           << <<",", " ">> >>) >>

\* the tables of the model: the runs of at most MaxRows consecutive rows of Pool
Tables ==
    { SubSeq(Pool, w[1], w[2]) :
        w \in { v \in (1..Len(Pool)) \X (0..Len(Pool)) :
                  v[1] - 1 <= v[2] /\ v[2] - v[1] + 1 <= MaxRows } }

\* a row whose Last Commit does not parse, and one whose Created is empty
BadDateRow ==
    Raw(<<"b", "a", "d", "/", "d">>, "Interoperability", 1,
        DateCell(T0 - Timedelta(50)), TextCell, << >>, << >>)
NoDateRow ==
    Raw(<<"n", "o", "/", "d">>, "Interoperability", 1,
        EmptyCell, DateCell(T0 - Timedelta(20)), << >>, << >>)

DataFiles ==
    { [exists |-> FALSE, missing |-> {}, rows |-> << >>] }
    \cup { [exists |-> TRUE, missing |-> {}, rows |-> t] : t \in Tables }
    \cup { [exists |-> TRUE, missing |-> {c}, rows |-> << Pool[2] >>] :
             c \in { "Category", "Stars" } }
    \cup { [exists |-> TRUE, missing |-> {}, rows |-> << Pool[3], r >>] :
             r \in { BadDateRow, NoDateRow } }

Stat(user, adds, commits, net) ==
    [ username |-> user, total_additions |-> adds,
      total_commits |-> commits, total_net_lines |-> net ]

\* contributor_detailed_stats_aggregated.csv: absent, or a table in which one
\* username has two rows, one has an empty cell and the others are not listed
StatsFiles ==
    { << >>,
      << << Stat(<<"a", "l">>, <<10>>, <<2>>, <<7>>),
            Stat(<<"n", "o", "t", "d", "e", "p", "e", "n", "d", "a", "b", "o", "t">>,
                 << >>, <<1>>, << >>),
            Stat(<<"a", "l">>, <<4>>, <<1>>, <<4>>) >> >> }

----------------------------------------------------------------------------
(* load_and_process_data: the column computations *)

\* the mask of lines 81-82 without its negation
ExcludeCategoriesNoNegation(t) == SelectSeq(t, LAMBDA r : r.Category \in EXCLUDED_CATEGORIES)

\* df[~df['Category'].isin([...])]
ExcludeCategories(t) == SelectSeq(t, LAMBDA r : r.Category \notin EXCLUDED_CATEGORIES)

\* pd.to_datetime on Created and Last Commit
ConvertDates(t) ==
    [i \in 1..Len(t) |->
        [t[i] EXCEPT !.Created = ToDatetime(t[i].Created),
                     !.Last_Commit = ToDatetime(t[i].Last_Commit)]]

DatesParse(t) == \A i \in 1..Len(t) : Parses(t[i].Created) /\ Parses(t[i].Last_Commit)

\* (today - df['Last Commit']).apply(lambda x: x.days); NaT gives NaN
DaysSinceLastCommit(now, last) ==
    IF last = << >> THEN << >> ELSE << Days(now - last[1]) >>

\* df['Top Contributors'].fillna('').str.split(',').apply(len)
ContributorCount(tc) == Len(Split(IF tc = << >> THEN << >> ELSE tc[1], Comma))

\* df['Repository'].str.split('/').str[0]
OrgOf(repo) == Split(repo, Slash)[1]

\* line 95 with <= for <
ActivityCategoryInclusive(days) ==
    IF days # << >> /\ days[1] <= ACTIVITY_WINDOW_DAYS THEN "Active" ELSE "Inactive"

\* np.where(df['days_since_last_commit'] < 365, 'Active', 'Inactive'); NaN < 365 is False
ActivityCategory(days) ==
    IF days # << >> /\ days[1] < ACTIVITY_WINDOW_DAYS THEN "Active" ELSE "Inactive"

\* (df['last_commit'] - df['first_commit']).dt.days
LifespanDays(first, last) ==
    IF first = << >> \/ last = << >> THEN << >> ELSE << Days(last[1] - first[1]) >>

\* df['first_commit'].dt.year
StartYear(first) == IF first = << >> THEN << >> ELSE << YearOf(first[1]) >>

\* df['last_commit'] >= (today - timedelta(days=365)); NaT >= x is False
IsActive(now, last) ==
    last # << >> /\ last[1] >= now - Timedelta(RECENCY_WINDOW_DAYS)

\* lines 89-102, today being the value read from the clock at line 89
DeriveColumns(t, now) ==
    [i \in 1..Len(t) |->
        LET r == t[i]
            days == DaysSinceLastCommit(now, r.Last_Commit)
        IN  [ Repository |-> r.Repository, Category |-> r.Category, Stars |-> r.Stars,
              Created |-> r.Created, Last_Commit |-> r.Last_Commit,
              Top_Contributors |-> r.Top_Contributors, Standard |-> r.Standard,
              days_since_last_commit |-> days,
              contributor_count |-> ContributorCount(r.Top_Contributors),
              Org |-> OrgOf(r.Repository),
              recent_activity_category |-> ActivityCategory(days),
              first_commit |-> r.Created,
              last_commit |-> r.Last_Commit,
              lifespan_days |-> LifespanDays(r.Created, r.Last_Commit),
              start_year |-> StartYear(r.Created),
              is_active |-> IsActive(now, r.Last_Commit) ]]

\* df['Standard'].fillna('None/Unknown')
FillStandard(std) == IF std = << >> THEN NoneUnknown ELSE std[1]

\* df['Standard'] != 'None/Unknown'
HasStandard(std) == std # NoneUnknown

\* line 110 keeping s where it keeps s.strip()
StandardsListUntrimmed(std) ==
    SelectSeq(Split(std, Comma), LAMBDA s : Strip(s) # << >>)

\* [s.strip() for s in str(x).split(',') if s.strip()]
StandardsList(std) ==
    LET parts == Split(std, Comma)
        kept  == SelectSeq(parts, LAMBDA s : Strip(s) # << >>)
    IN  [k \in 1..Len(kept) |-> Strip(kept[k])]

\* lines 105-111
ProcessStandard(t) ==
    [i \in 1..Len(t) |->
        LET std == FillStandard(t[i].Standard)
        IN  [ Repository |-> t[i].Repository, Category |-> t[i].Category,
              Stars |-> t[i].Stars, Created |-> t[i].Created,
              Last_Commit |-> t[i].Last_Commit,
              Top_Contributors |-> t[i].Top_Contributors,
              days_since_last_commit |-> t[i].days_since_last_commit,
              contributor_count |-> t[i].contributor_count,
              Org |-> t[i].Org,
              recent_activity_category |-> t[i].recent_activity_category,
              first_commit |-> t[i].first_commit, last_commit |-> t[i].last_commit,
              lifespan_days |-> t[i].lifespan_days, start_year |-> t[i].start_year,
              is_active |-> t[i].is_active,
              Standard |-> std,
              has_standard |-> HasStandard(std),
              standards_list |-> StandardsList(std) ]]

\* line 114 counting the rows of the file as read, before lines 80-82
OrgRepoCountsBeforeExclusion(t, org) ==
    Cardinality({ j \in 1..Len(csv.rows) : OrgOf(csv.rows[j].Repository) = org })

\* df.groupby('Org').size(), read with .get(org, 0)
OrgRepoCounts(t, org) == Cardinality({ i \in 1..Len(t) : t[i].Org = org })

\* line 115 with >= for >
IsOrganizationInclusive(count) == count >= ORG_THRESHOLD

\* org_repo_counts.get(x, 0) > 3
IsOrganization(count) == count > ORG_THRESHOLD

\* df['is_organization'].map({True: 'Organization', False: 'Individual'})
OwnerType(isorg) == IF isorg THEN "Organization" ELSE "Individual"

\* lines 113-116
ClassifyOwners(t) ==
    [i \in 1..Len(t) |->
        LET isorg == IsOrganization(OrgRepoCounts(t, t[i].Org))
        IN  [ Repository |-> t[i].Repository, Category |-> t[i].Category,
              Stars |-> t[i].Stars, Created |-> t[i].Created,
              Last_Commit |-> t[i].Last_Commit,
              Top_Contributors |-> t[i].Top_Contributors,
              days_since_last_commit |-> t[i].days_since_last_commit,
              contributor_count |-> t[i].contributor_count,
              Org |-> t[i].Org,
              recent_activity_category |-> t[i].recent_activity_category,
              first_commit |-> t[i].first_commit, last_commit |-> t[i].last_commit,
              lifespan_days |-> t[i].lifespan_days, start_year |-> t[i].start_year,
              is_active |-> t[i].is_active,
              Standard |-> t[i].Standard, has_standard |-> t[i].has_standard,
              standards_list |-> t[i].standards_list,
              is_organization |-> isorg,
              owner_type |-> OwnerType(isorg) ]]

----------------------------------------------------------------------------
(* The page: filters and tabs *)

\* df[df['Category'].isin(selected_categories)]
FilterCategory(t, cats) == SelectSeq(t, LAMBDA r : r.Category \in cats)

\* lines 173 and 175 indexing df where they index filtered_df
FilterActivityFromDf(t, choice) ==
    IF choice = "Active Only"
    THEN SelectSeq(df, LAMBDA r : r.recent_activity_category = "Active")
    ELSE IF choice = "Inactive Only"
    THEN SelectSeq(df, LAMBDA r : r.recent_activity_category = "Inactive")
    ELSE t

\* lines 172-175
FilterActivity(t, choice) ==
    IF choice = "Active Only"
    THEN SelectSeq(t, LAMBDA r : r.recent_activity_category = "Active")
    ELSE IF choice = "Inactive Only"
    THEN SelectSeq(t, LAMBDA r : r.recent_activity_category = "Inactive")
    ELSE t

\* filtered_df[filtered_df['Stars'] >= min_stars]
FilterStars(t, m) == SelectSeq(t, LAMBDA r : r.Stars >= m)

\* lines 178-179; 'Standard' is always a column of df once it is loaded
FilterStandard(t, std) ==
    IF std # All THEN SelectSeq(t, LAMBDA r : r.Standard = std) ELSE t

\* DataFrame.explode('standards_list') on one row: an empty list gives one row of NaN
ExplodeRow(r) ==
    IF r.standards_list = << >>
    THEN << [r EXCEPT !.standards_list = << >>] >>
    ELSE [k \in 1..Len(r.standards_list) |->
            [r EXCEPT !.standards_list = << r.standards_list[k] >>]]

\* lines 484-485 without line 486
StandardsExplodedKeepSentinel(t) ==
    LET exploded == Concat([i \in 1..Len(t) |-> ExplodeRow(t[i])])
    IN  SelectSeq(exploded, LAMBDA r : r.standards_list # << >>)

\* lines 484-486
StandardsExploded(t) ==
    LET exploded == Concat([i \in 1..Len(t) |-> ExplodeRow(t[i])])
        notna    == SelectSeq(exploded, LAMBDA r : r.standards_list # << >>)
    IN  SelectSeq(notna, LAMBDA r : r.standards_list[1] # NoneUnknown)

\* line 609 matching a bot name anywhere inside the handle
IsBotSubstring(handle) ==
    \E i \in 1..Len(BOT_ACCOUNTS) : Find(Lower(handle), Lower(BOT_ACCOUNTS[i])) # 0

\* contributor_clean.lower() in [bot.lower() for bot in BOT_ACCOUNTS]
IsBot(handle) ==
    IsIn(Lower(handle), [i \in 1..Len(BOT_ACCOUNTS) |-> Lower(BOT_ACCOUNTS[i])])

\* str(row['Top Contributors']).split(', '), each entry stripped
CleanContributors(text) ==
    LET parts == Split(text, CommaSpace)
    IN  [k \in 1..Len(parts) |-> Strip(parts[k])]

\* lines 604-618 for one row of filtered_df
ContributorRows(r) ==
    IF r.Top_Contributors = << >> THEN << >>
    ELSE LET kept == SelectSeq(CleanContributors(r.Top_Contributors[1]),
                               LAMBDA c : ~IsBot(c))
         IN  [k \in 1..Len(kept) |->
                [ Contributor |-> kept[k], Repository |-> r.Repository,
                  Stars |-> r.Stars, Category |-> r.Category, Org |-> r.Org,
                  Active |-> r.recent_activity_category, Standard |-> r.Standard ]]

\* lines 602-620
ContributorsList(t) == Concat([i \in 1..Len(t) |-> ContributorRows(t[i])])

\* line 632 with how='inner': a left row without a match is dropped
MergeRowInner(l, right) ==
    LET hits == SelectSeq(right, LAMBDA s : s.username = l.Contributor)
    IN  [k \in 1..Len(hits) |->
            [ Contributor |-> l.Contributor, Repository |-> l.Repository,
              Stars |-> l.Stars, Category |-> l.Category, Org |-> l.Org,
              Active |-> l.Active, Standard |-> l.Standard,
              username |-> << hits[k].username >>,
              total_additions |-> hits[k].total_additions,
              total_commits |-> hits[k].total_commits,
              total_net_lines |-> hits[k].total_net_lines ]]

\* the rows a left merge makes of one left row: one per match, or one of NaN
MergeRow(l, right) ==
    LET hits == SelectSeq(right, LAMBDA s : s.username = l.Contributor)
        Joined(user, adds, commits, net) ==
            [ Contributor |-> l.Contributor, Repository |-> l.Repository,
              Stars |-> l.Stars, Category |-> l.Category, Org |-> l.Org,
              Active |-> l.Active, Standard |-> l.Standard,
              username |-> user, total_additions |-> adds,
              total_commits |-> commits, total_net_lines |-> net ]
    IN  IF hits = << >>
        THEN << Joined(<< >>, << >>, << >>, << >>) >>
        ELSE [k \in 1..Len(hits) |->
                Joined(<< hits[k].username >>, hits[k].total_additions,
                       hits[k].total_commits, hits[k].total_net_lines)]

\* contributors_df.merge(contrib_stats[...], left_on='Contributor', right_on='username', how='left')
MergeLeft(left, right) == Concat([i \in 1..Len(left) |-> MergeRow(left[i], right)])

\* Series.fillna(0) on one cell
FillNa0(cell) == IF cell = << >> THEN << 0 >> ELSE cell

\* lines 628-638
ContributorsWithStats(left, right) ==
    LET merged == MergeLeft(left, right)
    IN  [i \in 1..Len(merged) |->
            [merged[i] EXCEPT !.total_additions = FillNa0(@),
                              !.total_commits = FillNa0(@),
                              !.total_net_lines = FillNa0(@)]]


\* the characters of the model's text, in code-point order
CodePoints ==
    << " ", ",", "-", "/",
       "A", "B", "C", "D", "E", "F", "G", "H", "I", "J", "K", "L", "M",
       "N", "O", "P", "Q", "R", "S", "T", "U", "V", "W", "X", "Y", "Z", "[", "]",
       "a", "b", "c", "d", "e", "f", "g", "h", "i", "j", "k", "l", "m",
       "n", "o", "p", "q", "r", "s", "t", "u", "v", "w", "x", "y", "z" >>

CodePoint(c) == CHOOSE i \in 1..Len(CodePoints) : CodePoints[i] = c

\* a < b for two str
RECURSIVE Before(_, _)
Before(a, b) ==
    IF b = << >> THEN FALSE
    ELSE IF a = << >> THEN TRUE
    ELSE IF a[1] = b[1] THEN Before(Tail(a), Tail(b))
    ELSE CodePoint(a[1]) < CodePoint(b[1])

\* the keys of groupby('Contributor'): the distinct handles, sorted
RECURSIVE SortedKeys(_)
SortedKeys(S) ==
    IF S = {} THEN << >>
    ELSE LET least == CHOOSE x \in S : \A y \in S \ {x} : Before(x, y)
         IN  << least >> \o SortedKeys(S \ {least})

\* sort_values(by) without ascending=False
RECURSIVE SortValuesAscending(_, _)
SortValuesAscending(t, by) ==
    IF t = << >> THEN << >>
    ELSE LET first == CHOOSE i \in 1..Len(t) :
                        /\ \A j \in 1..Len(t) : t[i][by] <= t[j][by]
                        /\ \A j \in 1..(i - 1) : t[i][by] < t[j][by]
         IN  << t[first] >>
             \o SortValuesAscending(SubSeq(t, 1, first - 1) \o SubSeq(t, first + 1, Len(t)), by)

\* sort_values(by, ascending=False); rows of equal value keep their order, as
\* the sort of a column this short does
RECURSIVE SortValues(_, _)
SortValues(t, by) ==
    IF t = << >> THEN << >>
    ELSE LET first == CHOOSE i \in 1..Len(t) :
                        /\ \A j \in 1..Len(t) : t[j][by] <= t[i][by]
                        /\ \A j \in 1..(i - 1) : t[j][by] < t[i][by]
         IN  << t[first] >>
             \o SortValues(SubSeq(t, 1, first - 1) \o SubSeq(t, first + 1, Len(t)), by)

\* DataFrame.head(20)
Head20(t) == IF Len(t) > 20 THEN SubSeq(t, 1, 20) ELSE t

\* lines 641-648: one row per Contributor of the joined table, ranked by Lines Added
TopByLinesAdded(t) ==
    LET keys == SortedKeys({ t[i].Contributor : i \in 1..Len(t) })
        Group(h) == SelectSeq(t, LAMBDA r : r.Contributor = h)
    IN  Head20(SortValues(
            [k \in 1..Len(keys) |->
                [ Contributor |-> keys[k],
                  Lines_Added |-> Group(keys[k])[1].total_additions[1],
                  Total_Commits |-> Group(keys[k])[1].total_commits[1],
                  Total_Stars |-> Sum([n \in 1..Len(Group(keys[k])) |-> Group(keys[k])[n].Stars]),
                  Repo_Count |-> Len(Group(keys[k])) ]],
            "Lines_Added"))

\* lines 656-661: one row per Contributor of contributors_df, ranked by Total Stars
TopByStars(t) ==
    LET keys == SortedKeys({ t[i].Contributor : i \in 1..Len(t) })
        Group(h) == SelectSeq(t, LAMBDA r : r.Contributor = h)
    IN  Head20(SortValues(
            [k \in 1..Len(keys) |->
                [ Contributor |-> keys[k],
                  Total_Stars |-> Sum([n \in 1..Len(Group(keys[k])) |-> Group(keys[k])[n].Stars]),
                  Repo_Count |-> Len(Group(keys[k])) ]],
            "Total_Stars"))

----------------------------------------------------------------------------
(* The script *)

Init ==
    /\ csv \in DataFiles
    /\ statsFile \in StatsFiles
    /\ clock = T0
    /\ pc = "start"
    /\ cache = << >>
    /\ load_df = << >>
    /\ today = << >>
    /\ df = << >>
    /\ contrib_stats = << >>
    /\ widgets = [ selected_categories |-> {}, activity_filter |-> "All",
                   min_stars |-> 0, selected_standard |-> All ]
    /\ filtered_df = << >>
    /\ standards_exploded = << >>
    /\ contributors_df = << >>
    /\ contributors_with_stats = << >>
    /\ rendered = << >>
    /\ prev = << >>
    /\ top_contributors = << >>
    /\ metric_for_chart = << >>
    /\ cached_from = << >>
    /\ other = [ pc |-> "start", df |-> << >>, filtered_df |-> << >>,
                 widgets |-> [ selected_categories |-> {}, activity_filter |-> "All",
                               min_stars |-> 0, selected_standard |-> All ] ]

\* the positions inside load_and_process_data
LoadPositions == { "read_csv", "exclude", "to_datetime", "derive", "columns",
                   "standard", "owners" }

\* the clock advances; only load_and_process_data reads it (line 89), so the time
\* that passes elsewhere is the time that has passed when it is entered
Tick ==
    /\ pc \in LoadPositions
    /\ clock < T0 + MaxTicks
    /\ clock' = clock + 1
    /\ UNCHANGED << csv, statsFile, pc, cache, load_df, today, df, contrib_stats, widgets,
                    filtered_df, standards_exploded, contributors_df,
                    contributors_with_stats, rendered, prev,
                    top_contributors, metric_for_chart,
                    cached_from,
                    other >>

\* raise inside the try block: control goes to the matching except clause
Raise(handler) == pc' = handler

\* line 132: df = load_and_process_data(), answered from the cache when it holds an entry
CallLoad ==
    /\ pc = "start"
    /\ IF cache # << >>
       THEN /\ df' = cache[1]
            /\ pc' = "load_contrib"
       ELSE /\ pc' = "read_csv"
            /\ UNCHANGED df
    /\ UNCHANGED << csv, statsFile, clock, cache, load_df, today, contrib_stats, widgets,
                    filtered_df, standards_exploded, contributors_df,
                    contributors_with_stats, rendered, prev,
                    top_contributors, metric_for_chart,
                    cached_from,
                    other >>

\* line 78: pd.read_csv('healthcare_data.csv')
ReadCsv ==
    /\ pc = "read_csv"
    /\ IF csv.exists
       THEN /\ load_df' = csv.rows
            /\ pc' = "exclude"
       ELSE /\ Raise("except_fnf")
            /\ UNCHANGED load_df
    /\ UNCHANGED << csv, statsFile, clock, cache, today, df, contrib_stats, widgets,
                    filtered_df, standards_exploded, contributors_df,
                    contributors_with_stats, rendered, prev,
                    top_contributors, metric_for_chart,
                    cached_from,
                    other >>

\* lines 80-82
Exclude ==
    /\ pc = "exclude"
    /\ IF "Category" \in csv.missing
       THEN /\ Raise("except_any")
            /\ UNCHANGED load_df
       ELSE /\ load_df' = ExcludeCategories(load_df)
            /\ pc' = "to_datetime"
    /\ UNCHANGED << csv, statsFile, clock, cache, today, df, contrib_stats, widgets,
                    filtered_df, standards_exploded, contributors_df,
                    contributors_with_stats, rendered, prev,
                    top_contributors, metric_for_chart,
                    cached_from,
                    other >>

\* lines 85-86
ParseDates ==
    /\ pc = "to_datetime"
    /\ IF {"Created", "Last Commit"} \cap csv.missing # {} \/ ~DatesParse(load_df)
       THEN /\ Raise("except_any")
            /\ UNCHANGED load_df
       ELSE /\ load_df' = ConvertDates(load_df)
            /\ pc' = "derive"
    /\ UNCHANGED << csv, statsFile, clock, cache, today, df, contrib_stats, widgets,
                    filtered_df, standards_exploded, contributors_df,
                    contributors_with_stats, rendered, prev,
                    top_contributors, metric_for_chart,
                    cached_from,
                    other >>

\* line 89: today = datetime.now()
ReadClock ==
    /\ pc = "derive"
    /\ today' = << clock >>
    /\ pc' = "columns"
    /\ UNCHANGED << csv, statsFile, clock, cache, load_df, df, contrib_stats, widgets,
                    filtered_df, standards_exploded, contributors_df,
                    contributors_with_stats, rendered, prev,
                    top_contributors, metric_for_chart,
                    cached_from,
                    other >>

\* lines 90 and 102 calling datetime.now() again
TodayReadAgain == clock

\* the value of the local variable today where lines 90 and 102 use it
TodayValue == today[1]

\* lines 90-102
Derive ==
    /\ pc = "columns"
    /\ IF {"Top Contributors", "Repository"} \cap csv.missing # {}
       THEN /\ Raise("except_any")
            /\ UNCHANGED load_df
       ELSE /\ load_df' = DeriveColumns(load_df, TodayValue)
            /\ pc' = "standard"
    /\ UNCHANGED << csv, statsFile, clock, cache, today, df, contrib_stats, widgets,
                    filtered_df, standards_exploded, contributors_df,
                    contributors_with_stats, rendered, prev,
                    top_contributors, metric_for_chart,
                    cached_from,
                    other >>

\* lines 105-111
Standards ==
    /\ pc = "standard"
    /\ IF "Standard" \in csv.missing
       THEN /\ Raise("except_any")
            /\ UNCHANGED load_df
       ELSE /\ load_df' = ProcessStandard(load_df)
            /\ pc' = "owners"
    /\ UNCHANGED << csv, statsFile, clock, cache, today, df, contrib_stats, widgets,
                    filtered_df, standards_exploded, contributors_df,
                    contributors_with_stats, rendered, prev,
                    top_contributors, metric_for_chart,
                    cached_from,
                    other >>

\* lines 113-118 and 132: the table is returned, cached and bound to df
Owners ==
    /\ pc = "owners"
    /\ LET result == ClassifyOwners(load_df)
       IN  /\ load_df' = << >>
           /\ cache' = << result >>
           /\ df' = result
    /\ cached_from' = << csv >>
    /\ pc' = "load_contrib"
    /\ UNCHANGED << csv, statsFile, clock, today, contrib_stats, widgets,
                    filtered_df, standards_exploded, contributors_df,
                    contributors_with_stats, rendered, prev,
                    top_contributors, metric_for_chart,
                    other >>

\* lines 120-128 and 133: contrib_stats = load_contribution_data()
LoadContribution ==
    /\ pc = "load_contrib"
    /\ contrib_stats' = statsFile
    /\ rendered' = IF statsFile = << >>
                   THEN Append(rendered, "warning: stats file not found")
                   ELSE rendered
    /\ pc' = "header"
    /\ UNCHANGED << csv, statsFile, clock, cache, load_df, today, df, widgets,
                    filtered_df, standards_exploded, contributors_df,
                    contributors_with_stats, prev,
                    top_contributors, metric_for_chart,
                    cached_from,
                    other >>

\* lines 135-140
Header ==
    /\ pc = "header"
    /\ rendered' = rendered \o << "title", "introduction", "sidebar header" >>
    /\ pc' = "sidebar"
    /\ UNCHANGED << csv, statsFile, clock, cache, load_df, today, df, contrib_stats,
                    widgets, filtered_df, standards_exploded, contributors_df,
                    contributors_with_stats, prev,
                    top_contributors, metric_for_chart,
                    cached_from,
                    other >>

\* sorted(df['Category'].unique())
CategoryOptions(t) == { t[i].Category : i \in 1..Len(t) }

\* int(df['Stars'].max()) is the slider's upper end
StarsRange(t) == 0..Max({ t[i].Stars : i \in 1..Len(t) })

\* ['All'] + sorted(df['Standard'].unique().tolist())
StandardOptions(t) == { All } \cup { t[i].Standard : i \in 1..Len(t) }

\* lines 142-168: the widgets return what the user has selected.
\* df['Stars'] raises KeyError without the column, and int() of the NaN that
\* max() gives on an empty column raises ValueError, after the first two widgets.
Sidebar ==
    /\ pc = "sidebar"
    /\ IF "Stars" \in csv.missing \/ df = << >>
       THEN /\ rendered' = rendered \o << "categories multiselect", "activity radio" >>
            /\ Raise("except_any")
            /\ UNCHANGED widgets
       ELSE /\ \E cats \in SUBSET CategoryOptions(df),
                  choice \in { "All", "Active Only", "Inactive Only" },
                  m \in StarsRange(df),
                  std \in StandardOptions(df) :
                    widgets' = [ selected_categories |-> cats, activity_filter |-> choice,
                                 min_stars |-> m, selected_standard |-> std ]
            /\ rendered' = rendered \o << "categories multiselect", "activity radio",
                                          "stars slider", "standard selectbox" >>
            /\ pc' = "filter_category"
    /\ UNCHANGED << csv, statsFile, clock, cache, load_df, today, df, contrib_stats,
                    filtered_df, standards_exploded, contributors_df,
                    contributors_with_stats, prev,
                    top_contributors, metric_for_chart,
                    cached_from,
                    other >>

\* line 171 dropping the rows from df itself
ApplyCategoryFilterInPlace ==
    /\ pc = "filter_category"
    /\ df' = FilterCategory(df, widgets.selected_categories)
    /\ filtered_df' = df'
    /\ pc' = "filter_activity"
    /\ UNCHANGED << csv, statsFile, clock, cache, load_df, today, contrib_stats,
                    widgets, standards_exploded, contributors_df,
                    contributors_with_stats, rendered, prev,
                    top_contributors, metric_for_chart,
                    cached_from,
                    other >>

\* line 171
ApplyCategoryFilter ==
    /\ pc = "filter_category"
    /\ filtered_df' = FilterCategory(df, widgets.selected_categories)
    /\ pc' = "filter_activity"
    /\ UNCHANGED << csv, statsFile, clock, cache, load_df, today, df, contrib_stats,
                    widgets, standards_exploded, contributors_df,
                    contributors_with_stats, rendered, prev,
                    top_contributors, metric_for_chart,
                    cached_from,
                    other >>

\* lines 172-175
ApplyActivityFilter ==
    /\ pc = "filter_activity"
    /\ filtered_df' = FilterActivity(filtered_df, widgets.activity_filter)
    /\ pc' = "filter_stars"
    /\ UNCHANGED << csv, statsFile, clock, cache, load_df, today, df, contrib_stats,
                    widgets, standards_exploded, contributors_df,
                    contributors_with_stats, rendered, prev,
                    top_contributors, metric_for_chart,
                    cached_from,
                    other >>

\* line 176
ApplyStarsFilter ==
    /\ pc = "filter_stars"
    /\ filtered_df' = FilterStars(filtered_df, widgets.min_stars)
    /\ pc' = "filter_standard"
    /\ UNCHANGED << csv, statsFile, clock, cache, load_df, today, df, contrib_stats,
                    widgets, standards_exploded, contributors_df,
                    contributors_with_stats, rendered, prev,
                    top_contributors, metric_for_chart,
                    cached_from,
                    other >>

\* lines 178-179
ApplyStandardFilter ==
    /\ pc = "filter_standard"
    /\ filtered_df' = FilterStandard(filtered_df, widgets.selected_standard)
    /\ pc' = "metrics"
    /\ UNCHANGED << csv, statsFile, clock, cache, load_df, today, df, contrib_stats,
                    widgets, standards_exploded, contributors_df,
                    contributors_with_stats, rendered, prev,
                    top_contributors, metric_for_chart,
                    cached_from,
                    other >>

\* lines 181-209: the overview metrics, the definitions box and the tab bar
Overview ==
    /\ pc = "metrics"
    /\ rendered' = rendered \o << "metrics", "definitions", "tabs" >>
    /\ pc' = "tab3"
    /\ UNCHANGED << csv, statsFile, clock, cache, load_df, today, df, contrib_stats,
                    widgets, filtered_df, standards_exploded, contributors_df,
                    contributors_with_stats, prev,
                    top_contributors, metric_for_chart,
                    cached_from,
                    other >>

\* lines 480-595: the standards tab
StandardsTab ==
    /\ pc = "tab3"
    /\ standards_exploded' = StandardsExploded(filtered_df)
    /\ rendered' = Append(rendered, "standards charts")
    /\ pc' = "tab4"
    /\ UNCHANGED << csv, statsFile, clock, cache, load_df, today, df, contrib_stats,
                    widgets, filtered_df, contributors_df,
                    contributors_with_stats, prev,
                    top_contributors, metric_for_chart,
                    cached_from,
                    other >>

\* lines 598-664: the contributors tab builds contributors_df and ranks it, by
\* lines added when the statistics are there and by stars when they are not
ContributorsTab ==
    /\ pc = "tab4"
    /\ LET list == ContributorsList(filtered_df)
       IN  /\ contributors_df' = list
           /\ IF Len(list) > 0
              THEN IF contrib_stats # << >>
                   THEN /\ contributors_with_stats' =
                               ContributorsWithStats(list, contrib_stats[1])
                        /\ top_contributors' = TopByLinesAdded(contributors_with_stats')
                        /\ metric_for_chart' = << "Lines Added" >>
                        /\ rendered' = rendered \o << "info: ranking by lines of code",
                                                      "contributor charts" >>
                   ELSE /\ contributors_with_stats' = << >>
                        /\ top_contributors' = TopByStars(list)
                        /\ metric_for_chart' = << "Total Stars" >>
                        /\ rendered' = rendered \o << "warning: ranking by stars",
                                                      "contributor charts" >>
              ELSE /\ contributors_with_stats' = << >>
                   /\ UNCHANGED << top_contributors, metric_for_chart,
                    cached_from,
                    other >>
                   /\ rendered' = Append(rendered, "info: no contributor data")
    /\ pc' = "done"
    /\ UNCHANGED << csv, statsFile, clock, cache, load_df, today, df, contrib_stats,
                    widgets, filtered_df, standards_exploded, prev,
                    cached_from,
                    other >>

\* lines 980-981
ExceptFileNotFound ==
    /\ pc = "except_fnf"
    /\ rendered' = Append(rendered, "error: data file not found")
    /\ pc' = "failed"
    /\ UNCHANGED << csv, statsFile, clock, cache, load_df, today, df, contrib_stats,
                    widgets, filtered_df, standards_exploded, contributors_df,
                    contributors_with_stats, prev,
                    top_contributors, metric_for_chart,
                    cached_from,
                    other >>

\* lines 982-984
ExceptException ==
    /\ pc = "except_any"
    /\ rendered' = rendered \o << "error: an error occurred", "info: check the data file" >>
    /\ pc' = "failed"
    /\ UNCHANGED << csv, statsFile, clock, cache, load_df, today, df, contrib_stats,
                    widgets, filtered_df, standards_exploded, contributors_df,
                    contributors_with_stats, prev,
                    top_contributors, metric_for_chart,
                    cached_from,
                    other >>

\* the module-level names of a run that has not yet bound them
FreshWidgets == [ selected_categories |-> {}, activity_filter |-> "All",
                  min_stars |-> 0, selected_standard |-> All ]

FreshRun ==
    /\ pc' = "start"
    /\ df' = << >>
    /\ contrib_stats' = << >>
    /\ widgets' = FreshWidgets
    /\ filtered_df' = << >>
    /\ standards_exploded' = << >>
    /\ contributors_df' = << >>
    /\ contributors_with_stats' = << >>
    /\ rendered' = << >>
    /\ top_contributors' = << >>
    /\ metric_for_chart' = << >>

\* a widget interaction: the script runs again from the top, in the same process
Rerun ==
    /\ pc \in { "done", "failed" }
    /\ FreshRun
    /\ UNCHANGED << csv, statsFile, clock, cache, load_df, today, prev,
                    cached_from,
                    other >>

\* the process is started again: the in-memory cache of line 75 is empty
Restart ==
    /\ pc \in { "done", "failed" }
    /\ FreshRun
    /\ prev' = IF cache # << >> THEN << [today |-> today[1], table |-> cache[1]] >> ELSE prev
    /\ cache' = << >>
    /\ cached_from' = << >>
    /\ UNCHANGED << csv, statsFile, clock, load_df, today,
                    other >>

Next ==
    \/ Tick
    \/ CallLoad \/ ReadCsv \/ Exclude \/ ParseDates \/ ReadClock \/ Derive
    \/ Standards \/ Owners \/ LoadContribution
    \/ Header \/ Sidebar
    \/ ApplyCategoryFilter \/ ApplyActivityFilter \/ ApplyStarsFilter \/ ApplyStandardFilter
    \/ Overview \/ StandardsTab \/ ContributorsTab
    \/ ExceptFileNotFound \/ ExceptException
    \/ Rerun \/ Restart

Spec == Init /\ [][Next]_vars

\* the versions of healthcare_data.csv of a dashboard whose data file is edited:
\* no file, acme/a alone, acme/a and acme/b, acme/a without a column
FileVersions ==
    { f \in DataFiles :
        ~f.exists \/ (f.rows # << >> /\ f.rows[1] = Pool[2] /\ Len(f.rows) <= 2) }

\* healthcare_data.csv is replaced by another version between two renders
EditFile ==
    /\ pc \in { "done", "failed" }
    /\ csv' \in FileVersions \ { csv }
    /\ UNCHANGED << statsFile, clock, pc, cache, load_df, today, df, contrib_stats,
                    widgets, filtered_df, standards_exploded, contributors_df,
                    contributors_with_stats, rendered, prev, top_contributors,
                    metric_for_chart, cached_from, other >>

InitFileChange == Init /\ csv \in FileVersions

NextFileChange == Next \/ EditFile

SpecFileChange == InitFileChange /\ [][NextFileChange]_vars

----------------------------------------------------------------------------
(* Two sessions of one process.  Each session runs the script in a thread *)
(* of its own with module-level names of its own; the st.cache_data entry *)
(* of line 75 is shared, and a call answered from it gets a copy.  The     *)
(* second session is followed from line 132 to line 179.                   *)

\* the names of the first session, which the second session does not touch
session == << csv, statsFile, clock, pc, cache, load_df, today, df, contrib_stats,
              widgets, filtered_df, standards_exploded, contributors_df,
              contributors_with_stats, rendered, prev, top_contributors,
              metric_for_chart, cached_from >>

\* line 132 in the second session, answered from the cache
OtherCallLoad ==
    /\ other.pc = "start"
    /\ cache # << >>
    /\ other' = [other EXCEPT !.df = cache[1], !.pc = "sidebar"]
    /\ UNCHANGED session

\* lines 142-168 in the second session
OtherSidebar ==
    /\ other.pc = "sidebar"
    /\ IF "Stars" \in csv.missing \/ other.df = << >>
       THEN other' = [other EXCEPT !.pc = "failed"]
       ELSE \E cats \in SUBSET CategoryOptions(other.df),
               choice \in { "All", "Active Only", "Inactive Only" },
               m \in StarsRange(other.df),
               std \in StandardOptions(other.df) :
                 other' = [other EXCEPT
                             !.widgets = [ selected_categories |-> cats,
                                           activity_filter |-> choice,
                                           min_stars |-> m, selected_standard |-> std ],
                             !.pc = "filter_category"]
    /\ UNCHANGED session

\* line 171 in the second session dropping the rows from the cached table
OtherApplyCategoryFilterOnCache ==
    /\ other.pc = "filter_category"
    /\ cache' = << FilterCategory(other.df, other.widgets.selected_categories) >>
    /\ other' = [other EXCEPT !.df = cache'[1], !.filtered_df = cache'[1],
                              !.pc = "filter_activity"]
    /\ UNCHANGED << csv, statsFile, clock, pc, load_df, today, df, contrib_stats,
                    widgets, filtered_df, standards_exploded, contributors_df,
                    contributors_with_stats, rendered, prev, top_contributors,
                    metric_for_chart, cached_from >>

\* line 171 in the second session
OtherApplyCategoryFilter ==
    /\ other.pc = "filter_category"
    /\ other' = [other EXCEPT
                   !.filtered_df = FilterCategory(other.df, other.widgets.selected_categories),
                   !.pc = "filter_activity"]
    /\ UNCHANGED session

\* lines 172-175 in the second session
OtherApplyActivityFilter ==
    /\ other.pc = "filter_activity"
    /\ other' = [other EXCEPT
                   !.filtered_df = FilterActivity(other.filtered_df, other.widgets.activity_filter),
                   !.pc = "filter_stars"]
    /\ UNCHANGED session

\* line 176 in the second session
OtherApplyStarsFilter ==
    /\ other.pc = "filter_stars"
    /\ other' = [other EXCEPT
                   !.filtered_df = FilterStars(other.filtered_df, other.widgets.min_stars),
                   !.pc = "filter_standard"]
    /\ UNCHANGED session

\* lines 178-179 in the second session
OtherApplyStandardFilter ==
    /\ other.pc = "filter_standard"
    /\ other' = [other EXCEPT
                   !.filtered_df = FilterStandard(other.filtered_df, other.widgets.selected_standard),
                   !.pc = "done"]
    /\ UNCHANGED session

\* the data files of the two sessions: acme/a alone, acme/a and acme/b
InitConcurrent == Init /\ csv \in { f \in FileVersions : f.exists /\ f.missing = {} }

\* the first session renders and renders again while the second one renders
NextConcurrent ==
    \/ CallLoad \/ ReadCsv \/ Exclude \/ ParseDates \/ ReadClock \/ Derive
    \/ Standards \/ Owners \/ LoadContribution
    \/ Header \/ Sidebar
    \/ ApplyCategoryFilter \/ ApplyActivityFilter \/ ApplyStarsFilter \/ ApplyStandardFilter
    \/ Overview \/ StandardsTab \/ ContributorsTab
    \/ Rerun
    \/ OtherCallLoad \/ OtherSidebar
    \/ OtherApplyCategoryFilter \/ OtherApplyActivityFilter
    \/ OtherApplyStarsFilter \/ OtherApplyStandardFilter

SpecConcurrent == InitConcurrent /\ [][NextConcurrent]_vars

----------------------------------------------------------------------------
(* Properties *)

\* the table load_and_process_data returned, once it has returned one
Loaded == cache # << >>
Enriched == cache[1]

\* the position in healthcare_data.csv of the row of this Repository
RowOf(repo) == CHOOSE j \in 1..Len(csv.rows) : csv.rows[j].Repository = repo

\* C1: after load_and_process_data no record of the categories Lists, Tutorials,
\* Specification / Docs, Archived / Deprecated or Educational is in the output,
\* every record of another category is, and the records kept are in the order
\* they have in the input.
C1_CategoryExclusion ==
    Loaded =>
        LET Dropped == { "Lists", "Tutorials", "Specification / Docs",
                         "Archived / Deprecated", "Educational" }
            in  == csv.rows
            out == Enriched
        IN  /\ \A i \in 1..Len(out) : out[i].Category \notin Dropped
            /\ \A i \in 1..Len(out) :
                 \E j \in 1..Len(in) : /\ in[j].Repository = out[i].Repository
                                       /\ in[j].Category = out[i].Category
            /\ \A j \in 1..Len(in) :
                 in[j].Category \notin Dropped
                    => \E i \in 1..Len(out) : out[i].Repository = in[j].Repository
            /\ \A i, k \in 1..Len(out) :
                 i < k => RowOf(out[i].Repository) < RowOf(out[k].Repository)

\* a table of at least two kept records and a dropped one has been loaded
C1_Witness ==
    /\ Loaded
    /\ Len(Enriched) >= 2
    /\ Len(Enriched) < Len(csv.rows)

\* C2: a record is Active exactly when days_since_last_commit < 365; at exactly
\* 365 days it is Inactive; every record is Active or Inactive.
C2_ActivityStatus ==
    Loaded =>
        \A i \in 1..Len(Enriched) :
            LET r == Enriched[i]
            IN  /\ r.recent_activity_category \in { "Active", "Inactive" }
                /\ r.recent_activity_category = "Active"
                     <=> (r.days_since_last_commit # << >>
                            /\ r.days_since_last_commit[1] < 365)
                /\ r.days_since_last_commit = << 365 >>
                     => r.recent_activity_category = "Inactive"

\* a loaded table holds a record at exactly 365 days and one at 364
C2_Witness ==
    /\ Loaded
    /\ \E i, j \in 1..Len(Enriched) :
         /\ Enriched[i].days_since_last_commit = << 365 >>
         /\ Enriched[i].recent_activity_category = "Inactive"
         /\ Enriched[j].days_since_last_commit = << 364 >>
         /\ Enriched[j].recent_activity_category = "Active"

\* the number of enriched records whose Org is org
SameOrg(org) == Cardinality({ j \in 1..Len(Enriched) : Enriched[j].Org = org })

\* C3: is_organization holds exactly when more than 3 enriched records share
\* the record's Org, and owner_type is Organization exactly then, else Individual.
C3_OrganizationThreshold ==
    Loaded =>
        \A i \in 1..Len(Enriched) :
            LET r == Enriched[i]
            IN  /\ r.is_organization <=> SameOrg(r.Org) > 3
                /\ r.owner_type = "Organization" <=> r.is_organization
                /\ r.owner_type = "Individual" <=> ~r.is_organization
                /\ Len(r.Org) > 0

\* a loaded table in which an Org has exactly 4 records, all organizations
C3_Witness ==
    /\ Loaded
    /\ \E i \in 1..Len(Enriched) :
         /\ SameOrg(Enriched[i].Org) = 4
         /\ Enriched[i].is_organization
         /\ Enriched[i].owner_type = "Organization"

\* two handles are equal when letter case is ignored
SameIgnoringCase(a, b) ==
    /\ Len(a) = Len(b)
    /\ \A k \in 1..Len(a) : LowerChar(a[k]) = LowerChar(b[k])

IsDenylisted(h) == \E i \in 1..Len(BOT_ACCOUNTS) : SameIgnoringCase(h, BOT_ACCOUNTS[i])

\* the page has run to its end, so the tables of the tabs are those of this run
Rendered == pc = "done"

\* the handles the explosion reads off a record of filtered_df
Handles(r) == IF r.Top_Contributors = << >> THEN << >>
              ELSE CleanContributors(r.Top_Contributors[1])

HasRow(h, repo) ==
    \E k \in 1..Len(contributors_df) :
        contributors_df[k].Contributor = h /\ contributors_df[k].Repository = repo

\* C4: no Contributor row carries a handle that equals a BOT_ACCOUNTS entry up
\* to letter case, and every handle that does not equal one, such as one that
\* merely contains a bot's name, has its row.
C4_BotFilterExactMatch ==
    Rendered =>
        /\ \A k \in 1..Len(contributors_df) : ~IsDenylisted(contributors_df[k].Contributor)
        /\ \A i \in 1..Len(filtered_df) :
             \A n \in 1..Len(Handles(filtered_df[i])) :
                LET h == Handles(filtered_df[i])[n]
                IN  HasRow(h, filtered_df[i].Repository) <=> ~IsDenylisted(h)

notdependabot == << "n", "o", "t", "d", "e", "p", "e", "n", "d", "a", "b", "o", "t" >>

\* a bot written in another case was dropped and notdependabot was kept
C4_Witness ==
    /\ Rendered
    /\ \E k \in 1..Len(contributors_df) : contributors_df[k].Contributor = notdependabot
    /\ \E i \in 1..Len(filtered_df) :
         \E n \in 1..Len(Handles(filtered_df[i])) :
            LET h == Handles(filtered_df[i])[n]
            IN  /\ IsDenylisted(h)
                /\ ~IsIn(h, BOT_ACCOUNTS)
                /\ ~HasRow(h, filtered_df[i].Repository)

\* the length of standards_list, record by record
ListLengths(t) == [i \in 1..Len(t) |-> Len(t[i].standards_list)]

ExplodedRowsOf(repo) ==
    Cardinality({ k \in 1..Len(standards_exploded) : standards_exploded[k].Repository = repo })

\* the records of filtered_df whose Standard is the sentinel, or is absent in the file
NoStandardDeclared(r) ==
    r.Standard = NoneUnknown \/ csv.rows[RowOf(r.Repository)].Standard = << >>

NamedStandards(r) ==
    Cardinality({ k \in 1..Len(r.standards_list) : r.standards_list[k] # NoneUnknown })

HasStats(h) == \E n \in 1..Len(contrib_stats[1]) : contrib_stats[1][n].username = h

\* the merge of lines 628-638 has run
Merged == Rendered /\ contrib_stats # << >> /\ Len(contributors_df) > 0

\* C6: with the statistics table present every contribution row is in the joined
\* table, which is never shorter than contributors_df, and a contributor without
\* a matching username has total_additions, total_commits and total_net_lines 0.
C6_LeftJoinKeepsRows ==
    Merged =>
        /\ Len(contributors_with_stats) >= Len(contributors_df)
        /\ \A i \in 1..Len(contributors_df) :
             \E j \in 1..Len(contributors_with_stats) :
                /\ contributors_with_stats[j].Contributor = contributors_df[i].Contributor
                /\ contributors_with_stats[j].Repository = contributors_df[i].Repository
                /\ contributors_with_stats[j].Stars = contributors_df[i].Stars
        /\ \A j \in 1..Len(contributors_with_stats) :
             ~HasStats(contributors_with_stats[j].Contributor)
                => /\ contributors_with_stats[j].total_additions = << 0 >>
                   /\ contributors_with_stats[j].total_commits = << 0 >>
                   /\ contributors_with_stats[j].total_net_lines = << 0 >>

\* the joined table holds a contributor with statistics and one without
C6_Witness ==
    /\ Merged
    /\ \E i, j \in 1..Len(contributors_with_stats) :
         /\ HasStats(contributors_with_stats[i].Contributor)
         /\ ~HasStats(contributors_with_stats[j].Contributor)
         /\ contributors_with_stats[j].total_additions = << 0 >>

\* the four filters of lines 171-179 applied to t with the current selections
Filtered(t) ==
    FilterStandard(
        FilterStars(
            FilterActivity(
                FilterCategory(t, widgets.selected_categories),
                widgets.activity_filter),
            widgets.min_stars),
        widgets.selected_standard)

AfterFirstFilter == { "filter_activity", "filter_stars", "filter_standard",
                      "metrics", "tab3", "tab4", "done" }
AfterFilters == { "metrics", "tab3", "tab4", "done" }

\* C7: the filters leave df as load_and_process_data returned it, whatever the
\* selections and however often the page is rendered, and the selections
\* applied to df again give filtered_df.
C7_FiltersLeaveDfUnchanged ==
    /\ pc \in AfterFirstFilter => df = Enriched
    /\ pc \in AfterFilters => filtered_df = Filtered(df)

\* every filter has dropped a record of df and a record is left
C7_Witness ==
    /\ pc = "done"
    /\ Len(filtered_df) >= 1
    /\ Len(FilterCategory(df, widgets.selected_categories)) < Len(df)
    /\ Len(FilterActivity(df, widgets.activity_filter)) < Len(df)
    /\ Len(FilterStars(df, widgets.min_stars)) < Len(df)
    /\ Len(FilterStandard(df, widgets.selected_standard)) < Len(df)

\* the k-th filter with the current selection
ApplyFilter(k, t) ==
    CASE k = 1 -> FilterCategory(t, widgets.selected_categories)
      [] k = 2 -> FilterActivity(t, widgets.activity_filter)
      [] k = 3 -> FilterStars(t, widgets.min_stars)
      [] k = 4 -> FilterStandard(t, widgets.selected_standard)

RECURSIVE ApplyInOrder(_, _)
ApplyInOrder(order, t) ==
    IF order = << >> THEN t ELSE ApplyInOrder(Tail(order), ApplyFilter(Head(order), t))

Orders == { o \in [1..4 -> 1..4] : \A a, b \in 1..4 : a # b => o[a] # o[b] }

\* C8: the four filters applied in any order give the records the code's order
\* (category, activity, stars, standard) gives.
C8_FiltersCommute ==
    pc = "metrics" => \A o \in Orders : ApplyInOrder(o, df) = filtered_df

\* each of the four filters drops a record of df, and a record is left
C8_Witness ==
    /\ pc = "metrics"
    /\ Len(filtered_df) >= 1
    /\ \A k \in 1..4 : Len(ApplyFilter(k, df)) < Len(df)

\* a process before this one derived a table, and this one has derived its own
TwoDerivations == prev # << >> /\ cache # << >>

ErrorMessages == { "error: data file not found", "error: an error occurred" }
DashboardContent ==
    { "title", "introduction", "sidebar header", "categories multiselect",
      "activity radio", "stars slider", "standard selectbox", "metrics",
      "definitions", "tabs", "standards charts", "contributor charts" }

\* C10: when an exception has reached an except clause of lines 980-984 the page
\* shows one error message and nothing of the dashboard before it.
C10_ErrorWithoutPartialRender ==
    pc = "failed" =>
        /\ Cardinality({ k \in 1..Len(rendered) : rendered[k] \in ErrorMessages }) = 1
        /\ \A k \in 1..Len(rendered) : rendered[k] \notin DashboardContent

\* a cell of Created or Last Commit that is empty or is not a date
NotADate(c) == c.kind # "date"

\* C11: when a record of healthcare_data.csv has a Created or Last Commit that
\* is missing or does not parse as a date, load_and_process_data returns no
\* table, and no returned record has a null date or a recency field computed
\* from one.
C11_BadDateFailsLoad ==
    /\ (\E j \in 1..Len(csv.rows) :
            NotADate(csv.rows[j].Created) \/ NotADate(csv.rows[j].Last_Commit))
          => ~Loaded
    /\ Loaded =>
          \A i \in 1..Len(Enriched) :
              /\ Enriched[i].first_commit # << >>
              /\ Enriched[i].last_commit # << >>
              /\ Enriched[i].lifespan_days # << >>
              /\ Enriched[i].days_since_last_commit # << >>

\* the rows of t are in non-increasing order of the column by
RankedBy(t, by) == \A i, j \in 1..Len(t) : i < j => t[i][by] >= t[j][by]

\* the Stars of the rows of contributors_df that carry the handle h, added up
StarsOf(h) ==
    Sum([k \in 1..Len(contributors_df) |->
            IF contributors_df[k].Contributor = h THEN contributors_df[k].Stars ELSE 0])

\* total_additions of the first row of the statistics for h, an empty cell and
\* a handle without a row counting 0
AdditionsOf(h) ==
    LET rows == SelectSeq(contrib_stats[1], LAMBDA r : r.username = h)
    IN  IF rows = << >> \/ rows[1].total_additions = << >> THEN 0
        ELSE rows[1].total_additions[1]

AfterLoadContribution ==
    { "header", "sidebar", "filter_category", "filter_activity", "filter_stars",
      "filter_standard", "metrics", "tab3", "tab4", "done" }

\* the contributors tab has ranked the contributors of this run
Ranked == Rendered /\ Len(contributors_df) > 0

\* C12: without the statistics file load_contribution_data returns None and the
\* page goes on (the FileNotFoundError handler is reached only for the data
\* file) with a warning; the contributors are then ranked by their summed Stars
\* under a message that says so, and with the file they are ranked by
\* total_additions under a message that says so; the ranking is by stars
\* exactly when the statistics are absent.
C12_RankingModeDisclosed ==
    /\ pc = "except_fnf" => ~csv.exists
    /\ pc \in AfterLoadContribution =>
          /\ contrib_stats = << >> <=> statsFile = << >>
          /\ statsFile = << >> => IsIn("warning: stats file not found", rendered)
    /\ Ranked =>
          /\ metric_for_chart = << "Total Stars" >> <=> contrib_stats = << >>
          /\ metric_for_chart = << "Lines Added" >> <=> contrib_stats # << >>
          /\ { top_contributors[k].Contributor : k \in 1..Len(top_contributors) }
                = { contributors_df[k].Contributor : k \in 1..Len(contributors_df) }
          /\ IF contrib_stats = << >>
             THEN /\ RankedBy(top_contributors, "Total_Stars")
                  /\ \A k \in 1..Len(top_contributors) :
                        top_contributors[k].Total_Stars = StarsOf(top_contributors[k].Contributor)
                  /\ IsIn("warning: ranking by stars", rendered)
                  /\ ~IsIn("info: ranking by lines of code", rendered)
             ELSE /\ RankedBy(top_contributors, "Lines_Added")
                  /\ \A k \in 1..Len(top_contributors) :
                        top_contributors[k].Lines_Added = AdditionsOf(top_contributors[k].Contributor)
                  /\ IsIn("info: ranking by lines of code", rendered)
                  /\ ~IsIn("warning: ranking by stars", rendered)

\* without the statistics file the page has run to its end and has ranked two
\* contributors of different summed Stars
C12_Witness ==
    /\ Ranked
    /\ statsFile = << >>
    /\ metric_for_chart = << "Total Stars" >>
    /\ \E i, j \in 1..Len(top_contributors) :
          top_contributors[i].Total_Stars > top_contributors[j].Total_Stars

\* the positions of a render at which df is bound
DfBound == { "load_contrib" } \cup (AfterLoadContribution \ { "done" })

\* C13: load_and_process_data computes the table on the first render of a
\* process and answers later renders from the cache; it computes again exactly
\* when healthcare_data.csv has changed since the entry was computed, so the
\* table of a render is always one computed from the file as it is.
C13_RecomputedIffFileChanged ==
    /\ pc = "read_csv" => (cache = << >> \/ cached_from # << csv >>)
    /\ pc \in DfBound => (cache # << >> /\ cached_from = << csv >>)

\* the Standard cell of the record's row in healthcare_data.csv
RawStandard(r) == csv.rows[RowOf(r.Repository)].Standard

RECURSIVE Ascending(_)
Ascending(S) ==
    IF S = {} THEN << >>
    ELSE LET least == CHOOSE x \in S : \A y \in S : x <= y
         IN  << least >> \o Ascending(S \ {least})

\* the entries of a comma-separated text: what stands between two commas, or
\* between an end of the text and a comma, in the order of the text, without
\* the whitespace around it, the entries of whitespace alone left out
EntriesOf(text) ==
    LET cuts   == {0} \cup { i \in 1..Len(text) : text[i] = "," } \cup { Len(text) + 1 }
        starts == Ascending(cuts \ { Len(text) + 1 })
        EndOf(b) == CHOOSE c \in cuts : c > b /\ \A d \in cuts : d > b => c <= d
        pieces == [k \in 1..Len(starts) |->
                      Strip(SubSeq(text, starts[k] + 1, EndOf(starts[k]) - 1))]
    IN  SelectSeq(pieces, LAMBDA e : e # << >>)

C15_HasStandardIffListNonEmpty ==
    Loaded =>
        \A i \in 1..Len(Enriched) :
            Enriched[i].has_standard <=> Enriched[i].standards_list # << >>

\* the rows of contributors_df made of the record of this Repository
ContributorRowsOf(repo) == SelectSeq(contributors_df, LAMBDA c : c.Repository = repo)

\* Top Contributors is absent, empty or whitespace alone
NoContributors(r) == r.Top_Contributors = << >> \/ Strip(r.Top_Contributors[1]) = << >>

\* C16: a record whose Top Contributors is absent, empty or whitespace alone
\* has no row in contributors_df, and no row of contributors_df has an empty
\* Contributor.
C16_NoEmptyContributor ==
    Rendered =>
        /\ \A i \in 1..Len(filtered_df) :
              NoContributors(filtered_df[i])
                 => ContributorRowsOf(filtered_df[i].Repository) = << >>
        /\ \A k \in 1..Len(contributors_df) : contributors_df[k].Contributor # << >>

\* Top Contributors is a list of handles: no entry between its commas is blank
ListsHandles(r) ==
    /\ r.Top_Contributors # << >>
    /\ Len(EntriesOf(r.Top_Contributors[1])) = Len(Split(r.Top_Contributors[1], Comma))

\* C17: a record whose Top Contributors is a comma-separated list of handles,
\* with or without whitespace around the commas, has exactly one row in
\* contributors_df for each listed handle that is not a bot, in the order of
\* the list, and the Contributor of the row is the handle without the
\* whitespace around it.
C17_OneRowPerHandle ==
    Rendered =>
        \A i \in 1..Len(filtered_df) :
            ListsHandles(filtered_df[i]) =>
                LET rows    == ContributorRowsOf(filtered_df[i].Repository)
                    handles == SelectSeq(EntriesOf(filtered_df[i].Top_Contributors[1]),
                                         LAMBDA h : ~IsDenylisted(h))
                IN  [k \in 1..Len(rows) |-> rows[k].Contributor] = handles

\* the records of df that pass the category, activity and stars filters
PassingOtherFilters ==
    FilterStars(
        FilterActivity(
            FilterCategory(df, widgets.selected_categories),
            widgets.activity_filter),
        widgets.min_stars)

\* the selection of the standard filter is the name of one standard
OneStandardSelected ==
    /\ widgets.selected_standard # All
    /\ EntriesOf(widgets.selected_standard) = << widgets.selected_standard >>

\* C18: with a standard S selected, filtered_df holds the records passing the
\* other filters that declare S among their standards, alone or together with
\* other standards, and no other record.
C18_StandardFilterByMembership ==
    (pc \in AfterFilters /\ OneStandardSelected) =>
        filtered_df = SelectSeq(PassingOtherFilters,
                                LAMBDA r : IsIn(widgets.selected_standard, r.standards_list))

\* C19: the dashboard has one definition of active: is_active, which the
\* survival rate counts, holds for a record exactly when its
\* recent_activity_category, which the Active Repos metric and the activity
\* filter use, is 'Active', whatever the time between Last Commit and now,
\* exactly 365 days included.
C19_OneDefinitionOfActive ==
    Loaded =>
        \A i \in 1..Len(Enriched) :
            Enriched[i].is_active <=> Enriched[i].recent_activity_category = "Active"

\* the table load_and_process_data makes of healthcare_data.csv at the time
\* today holds
Produced ==
    ClassifyOwners(ProcessStandard(DeriveColumns(
        ConvertDates(ExcludeCategories(csv.rows)), today[1])))

\* the view a render with the selections w gets of the table t when it runs alone
ViewAlone(t, w) ==
    FilterStandard(
        FilterStars(
            FilterActivity(FilterCategory(t, w.selected_categories), w.activity_filter),
            w.min_stars),
        w.selected_standard)

\* C20: two sessions that render from the same cache entry do not interfere:
\* however their steps interleave, the filtered view of each is the view its
\* selections give of the table when it runs alone, and the cached table stays
\* the table load_and_process_data produced.
C20_ConcurrentRendersIndependent ==
    Loaded =>
        /\ cache[1] = Produced
        /\ pc \in AfterFilters => filtered_df = ViewAlone(Produced, widgets)
        /\ other.pc = "done" => other.filtered_df = ViewAlone(Produced, other.widgets)
        /\ other.pc # "start" => other.df = Produced

\* both sessions have filtered the cached table, with different selections and
\* to different views that hold a record each
C20_Witness ==
    /\ pc \in AfterFilters
    /\ other.pc = "done"
    /\ widgets # other.widgets
    /\ filtered_df # other.filtered_df
    /\ Len(filtered_df) >= 1
    /\ Len(other.filtered_df) >= 1
    /\ Len(filtered_df) < Len(cache[1])

\* the Repository starts with the owner org and a slash
OwnedBy(repo, org) ==
    Len(repo) > Len(org) /\ SubSeq(repo, 1, Len(org) + 1) = org \o << "/" >>

\* the rows of healthcare_data.csv of this owner, those of the excluded
\* categories left out, and all of them
KeptRowsOf(org) ==
    Cardinality({ j \in 1..Len(csv.rows) :
                    /\ OwnedBy(csv.rows[j].Repository, org)
                    /\ csv.rows[j].Category \notin EXCLUDED_CATEGORIES })
AllRowsOf(org) ==
    Cardinality({ j \in 1..Len(csv.rows) : OwnedBy(csv.rows[j].Repository, org) })

\* the record of this Repository in the enriched table
EnrichedRecord(repo) == Enriched[CHOOSE i \in 1..Len(Enriched) : Enriched[i].Repository = repo]

\* C21: the count that decides is_organization is taken over the records left
\* by the category exclusion, so a record of an excluded category never counts
\* toward the threshold of 3, and it is not taken again after a filter: in
\* every filtered view a record has the is_organization and owner_type it has
\* in the full enriched table.
C21_CountAfterExclusionBeforeFilters ==
    Loaded =>
        /\ \A i \in 1..Len(Enriched) :
              Enriched[i].is_organization <=> KeptRowsOf(Enriched[i].Org) > 3
        /\ pc \in AfterFirstFilter =>
              \A k \in 1..Len(filtered_df) :
                 /\ filtered_df[k].is_organization
                       = EnrichedRecord(filtered_df[k].Repository).is_organization
                 /\ filtered_df[k].owner_type
                       = EnrichedRecord(filtered_df[k].Repository).owner_type

\* an owner has 4 rows in the file, one of an excluded category, and is no
\* organization; the filters have dropped a record of its and kept one
C21_Witness ==
    /\ Loaded
    /\ pc \in AfterFilters
    /\ Len(filtered_df) >= 1
    /\ Len(filtered_df) < Len(df)
    /\ \E k \in 1..Len(filtered_df) :
          /\ AllRowsOf(filtered_df[k].Org) = 4
          /\ KeptRowsOf(filtered_df[k].Org) = 3
          /\ ~filtered_df[k].is_organization
          /\ filtered_df[k].owner_type = "Individual"

\* d is the whole number of days of the difference delta, rounded toward
\* minus infinity: d days are not more than delta and d + 1 days are
WholeDays(d, delta) == d * TicksPerDay <= delta /\ delta < (d + 1) * TicksPerDay

\* C22: for every enriched record with its dates, days_since_last_commit is the
\* whole number of days of now - Last Commit, rounded toward minus infinity,
\* and lifespan_days that of Last Commit - Created; a Last Commit after now
\* gives a negative days_since_last_commit, a Last Commit before Created a
\* negative lifespan_days, and equal dates give lifespan_days 0.  Where a date
\* is missing the field is NaN, not a number.
C22_WholeDaysNotClamped ==
    Loaded =>
        \A i \in 1..Len(Enriched) :
            LET r   == Enriched[i]
                now == today[1]
            IN  /\ IF r.Last_Commit = << >>
                   THEN r.days_since_last_commit = << >>
                   ELSE /\ r.days_since_last_commit # << >>
                        /\ WholeDays(r.days_since_last_commit[1], now - r.Last_Commit[1])
                        /\ r.Last_Commit[1] > now => r.days_since_last_commit[1] < 0
                /\ IF r.Last_Commit = << >> \/ r.Created = << >>
                   THEN r.lifespan_days = << >>
                   ELSE /\ r.lifespan_days # << >>
                        /\ WholeDays(r.lifespan_days[1], r.Last_Commit[1] - r.Created[1])
                        /\ r.Last_Commit[1] < r.Created[1] => r.lifespan_days[1] < 0
                        /\ r.Last_Commit[1] = r.Created[1] => r.lifespan_days[1] = 0

\* a loaded table holds a record whose Last Commit is after now by days and a
\* part of a day and before its Created, and a record whose two dates are equal
C22_Witness ==
    /\ Loaded
    /\ \E i, j \in 1..Len(Enriched) :
          /\ Enriched[i].Last_Commit # << >>
          /\ Enriched[i].Last_Commit[1] > today[1]
          /\ (Enriched[i].Last_Commit[1] - today[1]) % TicksPerDay # 0
          /\ Enriched[i].days_since_last_commit[1] < 0
          /\ Enriched[i].lifespan_days[1] < 0
          /\ Enriched[j].Created = Enriched[j].Last_Commit
          /\ Enriched[j].lifespan_days = << 0 >>

====
